---- MODULE Spec2Model ----
(***************************************************************************)
(* Model of the Vision-Y YOLOv8 detection service                          *)
(* (src/components/ml/YOLOv8Service.py).                                    *)
(*                                                                         *)
(* Conventions                                                             *)
(*  - confidences and thresholds are integers in percent (0.5 is 50);      *)
(*  - Python None is the record None; a str is Str(segs) where segs is     *)
(*    the list str.split(",") would give, so "" is Str(<<EmptySeg>>);      *)
(*  - a raised exception is a record with raised = TRUE carrying the       *)
(*    exception type and, for HTTPException, its status code;              *)
(*  - the network is the external YOLO object: what it sees in an image    *)
(*    is the image's scene, the boxes it would report with conf = 0.       *)
(*    Its treatment of a score equal to conf, and of a result without      *)
(*    boxes, is decided by the library and not by this program: every      *)
(*    behaviour starts with one of the possible choices in net.            *)
(*    processing_time_ms and timestamps are wall-clock values and are      *)
(*    left out of the responses.                                           *)
(***************************************************************************)
EXTENDS Integers, Sequences, FiniteSets, TLC

VARIABLES
    phase,   \* "created" (startup not run), "serving", "aborted"
    model,   \* the global model handle: None or Yolo
    loads,   \* number of assignments made to the global model handle
    served,  \* number of requests handled so far
    req,     \* the last request handled (or the one about to be)
    resp,    \* the response to req, NoResp before the first one
    calls,   \* decode/inference/filter calls made while handling req
    batch,   \* the /batch-validate call in flight, or the last one returned
    net      \* what the installed network library does where the code
             \* does not decide it (see InvokeModel); fixed for a run

vars == <<phase, model, loads, served, req, resp, calls, batch, net>>

(* ------------------------------ bounds ------------------------------- *)

MaxBoxes == 2      \* boxes in one image's scene
MaxFiles == 3      \* files in one /batch-validate upload
MaxServed == 2     \* requests handled in one run of the service

(* --------------------------- configuration --------------------------- *)

CONFIDENCE_THRESHOLD == 50

YOLO_TO_VY_CLASSES ==
    (0 :> "person") @@ (1 :> "bicycle") @@ (2 :> "car") @@ (3 :> "motorcycle")
    @@ (5 :> "truck") @@ (7 :> "truck")
    @@ (14 :> "animal") @@ (15 :> "animal") @@ (16 :> "animal") @@ (17 :> "animal")

(* ------------------------------ values ------------------------------- *)

None == [tag |-> "None"]
Some(v) == [tag |-> "Some", val |-> v]
Yolo == [tag |-> "YOLO"]

Range(s) == {s[i] : i \in 1..Len(s)}

SetMin(S) == CHOOSE x \in S : \A y \in S : x <= y
SetMax(S) == CHOOSE x \in S : \A y \in S : x >= y

\* Segments of a str between commas.
EmptySeg == [seg |-> "empty"]
HeaderSeg == [seg |-> "data:image/png;base64"]
NotB64Seg == [seg |-> "not-base64"]
TextSeg(t) == [seg |-> "text", text |-> t]
B64Seg(bytes) == [seg |-> "b64", bytes |-> bytes]

Str(segs) == [tag |-> "str", segs |-> segs]
EmptyStr == Str(<<EmptySeg>>)

\* Python truthiness of an Optional[str]: None and "" are falsy.
Truthy(s) == s.tag = "str" /\ s.segs # <<EmptySeg>>

\* File contents.
EmptyBytes == [fmt |-> "empty"]
JunkBytes == [fmt |-> "junk"]
ImageBytes(w, h, scene, heavy) ==
    [fmt |-> "img", w |-> w, h |-> h, scene |-> scene, heavy |-> heavy]

\* base64.b64encode(content).decode(): the empty content encodes to "".  The
\* contents used here have a length that is a multiple of 3, so their base64
\* text has a length that is a multiple of 4 and carries no "=" padding.
b64encode(content) ==
    IF content = EmptyBytes THEN EmptyStr ELSE Str(<<B64Seg(content)>>)

Raised(type, code) == [raised |-> TRUE, type |-> type, status_code |-> code]
Returned(v) == [raised |-> FALSE, value |-> v]

\* The number, modulo 4, of base64-alphabet characters in one segment:
\* "abc" has 3, "data:image/png;base64" has 19, "http://cam/frame.jpg" has 18,
\* the base64 text of a content has a multiple of 4.
AlphabetChars(seg) ==
    CASE seg.seg = "empty" -> 0
      [] seg.seg = "b64" -> 0
      [] seg.seg = NotB64Seg.seg -> 3
      [] seg.seg = HeaderSeg.seg -> 3
      [] seg.seg = "text" -> 2

RECURSIVE AlphabetCharsOf(_)
AlphabetCharsOf(segs) ==
    IF segs = <<>> THEN 0
    ELSE (AlphabetChars(Head(segs)) + AlphabetCharsOf(Tail(segs))) % 4

\* The bytes the i-th segment decodes to: its content when it is the base64
\* text of a content and starts on a 4-character boundary, arbitrary bytes
\* otherwise, nothing when it is empty.
ChunkAt(segs, i) ==
    CASE segs[i].seg = "empty" -> EmptyBytes
      [] segs[i].seg = "b64" /\ AlphabetCharsOf(SubSeq(segs, 1, i - 1)) = 0
            -> segs[i].bytes
      [] OTHER -> JunkBytes

\* base64.b64decode(s) in its default, non-validating mode, on the whole
\* string s: the commas between the segments, like every character outside
\* the alphabet, are discarded; the remaining characters must come in groups
\* of 4 ("Incorrect padding" otherwise).  The bytes are the chunks in order.
b64decode(segs) ==
    IF AlphabetCharsOf(segs) # 0
    THEN Raised("binascii.Error", 0)
    ELSE Returned(SelectSeq([i \in 1..Len(segs) |-> ChunkAt(segs, i)],
                            LAMBDA c : c.fmt # "empty"))

\* Image.open(...) then np.array(image.convert("RGB")): the format is
\* recognised from the leading bytes, and bytes after the end of the image
\* are not read.
ImageOpen(bytes) ==
    IF bytes # <<>> /\ Head(bytes).fmt = "img"
    THEN Returned([shape |-> <<Head(bytes).h, Head(bytes).w>>,
                   scene |-> Head(bytes).scene, heavy |-> Head(bytes).heavy])
    ELSE Raised("UnidentifiedImageError", 0)

\* image_data.startswith("data:image")
StartsWithDataImage(image_data) == image_data.segs[1].seg = HeaderSeg.seg

\* if image_data.startswith("data:image"): image_data.split(",")[1]; a
\* string without the prefix is left whole, commas included.
StripDataUrl(image_data) ==
    IF StartsWithDataImage(image_data)
    THEN IF Len(image_data.segs) >= 2
         THEN Returned(<<image_data.segs[2]>>)
         ELSE Raised("IndexError", 0)
    ELSE Returned(image_data.segs)

DecodeStripped(stripped) ==
    IF stripped.raised THEN stripped ELSE b64decode(stripped.value)

OpenDecoded(bytes) ==
    IF bytes.raised THEN bytes ELSE ImageOpen(bytes.value)

\* except Exception as e: raise HTTPException(status_code=400, ...)
AsInvalidImage(image) ==
    IF image.raised THEN Raised("HTTPException", 400) ELSE image

decode_image(image_data) ==
    AsInvalidImage(OpenDecoded(DecodeStripped(StripDataUrl(image_data))))

normalize_bbox(bbox, img_width, img_height) ==
    [x |-> <<bbox[1], img_width>>,
     y |-> <<bbox[2], img_height>>,
     width |-> <<bbox[3] - bbox[1], img_width>>,
     height |-> <<bbox[4] - bbox[2], img_height>>]

(* ------------------------- filter_detections ------------------------- *)

\* Variant of MapClass that keeps the network's own names and maps every id.
MapClassNative(class_id) ==
    IF class_id \in DOMAIN YOLO_TO_VY_CLASSES
    THEN Some(IF class_id = 5 THEN "bus" ELSE YOLO_TO_VY_CLASSES[class_id])
    ELSE Some("unknown")

\* YOLO_TO_VY_CLASSES.get(class_id)
MapClass(class_id) ==
    IF class_id \in DOMAIN YOLO_TO_VY_CLASSES
    THEN Some(YOLO_TO_VY_CLASSES[class_id])
    ELSE None

\* Variant of AllowlistRejects that ignores the allowlist.
AllowlistRejectsNever(classes, vy_class) == FALSE

\* classes and vy_class not in classes
AllowlistRejects(classes, vy_class) ==
    classes # <<>> /\ vy_class \notin Range(classes)

\* Variant of EffectiveThreshold that ignores the caller's overrides.
EffectiveThresholdGlobal(thresholds, vy_class) == CONFIDENCE_THRESHOLD

\* thresholds.get(vy_class, CONFIDENCE_THRESHOLD)
EffectiveThreshold(thresholds, vy_class) ==
    IF vy_class \in DOMAIN thresholds
    THEN thresholds[vy_class]
    ELSE CONFIDENCE_THRESHOLD

\* The three `continue` tests of the inner loop, vy being the mapped class.
KeepsMapped(vy, conf, classes, thresholds) ==
    /\ vy.tag # "None"
    /\ vy.val # ""
    /\ ~AllowlistRejects(classes, vy.val)
    /\ ~(conf < EffectiveThreshold(thresholds, vy.val))

KeepsBox(box, classes, thresholds) ==
    KeepsMapped(MapClass(box.cls), box.conf, classes, thresholds)

MakeDetection(box, img_width, img_height) ==
    [class_name |-> MapClass(box.cls).val,
     confidence |-> box.conf,
     bbox |-> normalize_bbox(box.xyxy, img_width, img_height)]

\* The detections appended for one result of the outer loop.
KeptOfResult(result, classes, thresholds) ==
    IF ~result.has_boxes THEN <<>>
    ELSE SelectSeq(result.boxes, LAMBDA b : KeepsBox(b, classes, thresholds))

FormatKept(kept, img_width, img_height) ==
    [i \in 1..Len(kept) |-> MakeDetection(kept[i], img_width, img_height)]

RECURSIVE filter_detections(_, _, _, _, _)
filter_detections(results, classes, thresholds, img_width, img_height) ==
    IF results = <<>> THEN <<>>
    ELSE FormatKept(KeptOfResult(Head(results), classes, thresholds),
                    img_width, img_height)
         \o filter_detections(Tail(results), classes, thresholds,
                              img_width, img_height)

(* --------------------------- detect_objects -------------------------- *)

DetectionRequest(image_data, image_url, classes, thresholds) ==
    [image_data |-> image_data, image_url |-> image_url,
     classes |-> classes, thresholds |-> thresholds]

Call(fn, ok) == [fn |-> fn, ok |-> ok]

\* The outcome of a step of the try block with the calls made so far.
Outcome(result, log) == [result |-> result, calls |-> log]

Decoded(d) == Outcome(d, <<Call("decode_image", ~d.raised)>>)

\* A 2x1 frame with nothing in it, used by the variants below.
BlankFrame == [shape |-> <<1, 2>>, scene |-> <<>>, heavy |-> FALSE]

\* Variant of AcquireImage that falls back to a blank frame when the request
\* carries no image field at all.
AcquireImageBlankDefault(request) ==
    IF Truthy(request.image_data)
    THEN Decoded(decode_image(request.image_data))
    ELSE IF Truthy(request.image_url)
    THEN Outcome(Raised("HTTPException", 400), <<>>)
    ELSE Outcome(Returned(BlankFrame), <<>>)

\* Variant of AcquireImage that serves a blank frame for an image_url.
AcquireImageUrlBlank(request) ==
    IF Truthy(request.image_data)
    THEN Decoded(decode_image(request.image_data))
    ELSE IF Truthy(request.image_url)
    THEN Outcome(Returned(BlankFrame), <<>>)
    ELSE Outcome(Raised("HTTPException", 400), <<>>)

\* "Get image data": image_data wins over image_url; a request with neither
\* raises.
AcquireImage(request) ==
    IF Truthy(request.image_data)
    THEN Decoded(decode_image(request.image_data))
    ELSE IF Truthy(request.image_url)
    THEN Outcome(Raised("HTTPException", 400), <<>>)
    ELSE Outcome(Raised("HTTPException", 400), <<>>)

\* Variant of ConfFloor that takes the strictest override.
ConfFloorMax(request) ==
    IF DOMAIN request.thresholds # {}
    THEN SetMax({request.thresholds[k] : k \in DOMAIN request.thresholds})
    ELSE CONFIDENCE_THRESHOLD

\* conf=min(request.thresholds.values()) if request.thresholds else
\* CONFIDENCE_THRESHOLD
ConfFloor(request) ==
    IF DOMAIN request.thresholds # {}
    THEN SetMin({request.thresholds[k] : k \in DOMAIN request.thresholds})
    ELSE CONFIDENCE_THRESHOLD

\* One element of the list the network returns: result.boxes is None or a
\* sequence of boxes.
Result(boxes) == [has_boxes |-> TRUE, boxes |-> boxes]
NoBoxesResult == [has_boxes |-> FALSE, boxes |-> <<>>]

\* The choices the network library makes: whether a box whose score equals
\* conf is reported, and whether a result with nothing in it has boxes None
\* or an empty boxes object.
NetKinds == [keeps_equal : BOOLEAN, empty_none : BOOLEAN]

\* Whether the network reports box b under the floor conf: scores above the
\* floor are reported, scores below it are not.
Reports(b, conf) == b.conf > conf \/ (net.keeps_equal /\ b.conf = conf)

AsResult(boxes) ==
    IF boxes = <<>> /\ net.empty_none THEN NoBoxesResult ELSE Result(boxes)

\* results = model(img_array, conf=..., iou=..., verbose=False).  One image
\* goes in and one result comes out, holding, in the order of the scene, the
\* boxes the network reports under the floor; on an image too heavy for the
\* device the call raises.  Non-maximum suppression is already applied in
\* the scene.
InvokeModel(m, img_array, conf) ==
    IF img_array.heavy
    THEN Raised("RuntimeError", 0)
    ELSE Returned(<<AsResult(SelectSeq(img_array.scene,
                                       LAMBDA b : Reports(b, conf)))>>)

ModelInfo ==
    [model_name |-> "YOLOv8",
     num_classes |-> Cardinality(DOMAIN YOLO_TO_VY_CLASSES)]

\* filter_detections(...) and the DetectionResponse built from it.
FilterAndRespond(request, img_array, results, log) ==
    IF results.raised
    THEN Outcome(results, log \o <<Call("model", FALSE)>>)
    ELSE Outcome(Returned([detections |->
                               filter_detections(results.value, request.classes,
                                   request.thresholds,
                                   img_array.shape[2], img_array.shape[1]),
                           image_size |-> <<img_array.shape[2],
                                            img_array.shape[1]>>,
                           model_info |-> ModelInfo]),
                 log \o <<Call("model", TRUE), Call("filter_detections", TRUE)>>)

\* The try block after the image is acquired: inference, then filtering.
InferOn(m, request, got) ==
    IF got.result.raised THEN got
    ELSE FilterAndRespond(request, got.result.value,
                          InvokeModel(m, got.result.value, ConfFloor(request)),
                          got.calls)

\* The body of the try block.
TryDetect(m, request) == InferOn(m, request, AcquireImage(request))

HttpError(code, detail, cause, log) ==
    [status_code |-> code,
     body |-> [detail |-> detail, cause |-> cause],
     calls |-> log]

\* `except Exception` catches every exception of the try block,
\* HTTPException included, and raises HTTPException(status_code=500).
CatchAll(t) ==
    IF t.result.raised
    THEN HttpError(500, "Detection failed", t.result, t.calls)
    ELSE [status_code |-> 200, body |-> t.result.value, calls |-> t.calls]

\* Variant of detect_objects whose test on the handle sits inside the try block.
detect_objects_checked_in_try(m, request) ==
    IF m = None
    THEN CatchAll(Outcome(Raised("HTTPException", 503), <<>>))
    ELSE CatchAll(TryDetect(m, request))

\* POST /detect
detect_objects(m, request) ==
    IF m = None
    THEN HttpError(503, "Model not loaded", None, <<>>)
    ELSE CatchAll(TryDetect(m, request))

(* ---------------------- health, alpr, batch, load --------------------- *)

\* Variant of health_check with the test on the handle inverted.
health_check_inverted(m) ==
    [status_code |-> 200,
     body |-> [status |-> IF m = None THEN "healthy" ELSE "unhealthy",
               model_loaded |-> (m = None)],
     calls |-> <<>>]

\* GET /health
health_check(m) ==
    [status_code |-> 200,
     body |-> [status |-> IF m # None THEN "healthy" ELSE "unhealthy",
               model_loaded |-> (m # None)],
     calls |-> <<>>]

\* POST /alpr
alpr_detection(request) ==
    [status_code |-> 200,
     body |-> [plates |-> <<[plate |-> "ABC-1234", confidence |-> 95,
                             region |-> request.region]>>],
     calls |-> <<>>]

\* results.append({...}) for one file, given what detect_objects did.
EntryOf(file, result) ==
    IF result.status_code = 200
    THEN [entry |-> [filename |-> file.filename,
                     detections |-> Len(result.body.detections),
                     success |-> TRUE],
          calls |-> result.calls]
    ELSE [entry |-> [filename |-> file.filename, success |-> FALSE,
                     error |-> result.status_code],
          calls |-> result.calls]

\* One iteration of the loop of batch_validate.
BatchEntry(m, file) ==
    IF ~file.readable
    THEN [entry |-> [filename |-> file.filename, success |-> FALSE,
                     error |-> 0],
          calls |-> <<>>]
    ELSE EntryOf(file,
                 detect_objects(m, DetectionRequest(b64encode(file.content),
                                                    None, <<>>, <<>>)))

\* The frame of a batch_validate call: the uploaded files, the index of the
\* file whose read() is awaited, the results list, the calls made so far
\* and, for each file already processed, the handle its detect call read.
BatchFrame(active, files) ==
    [active |-> active, files |-> files, next |-> 1, results |-> <<>>,
     calls |-> <<>>, seen |-> <<>>]

NoBatch == BatchFrame(FALSE, <<>>)

\* results.append(...) and the step to the next file.
AppendedTo(b, m, e) ==
    [b EXCEPT !.results = Append(@, e.entry), !.calls = @ \o e.calls,
              !.seen = Append(@, m), !.next = @ + 1]

\* Variant of BatchIterate that leaves the loop at the first failing file.
AbortedAt(b, e) ==
    IF e.entry.success THEN b ELSE [b EXCEPT !.next = Len(b.files) + 1]

BatchIterateAbort(b, m) ==
    AbortedAt(AppendedTo(b, m, BatchEntry(m, b.files[b.next])),
              BatchEntry(m, b.files[b.next]))

\* One pass through the body of `for file in files`, from the completion of
\* file.read() to the append; m is the handle as it is at that moment.
BatchIterate(b, m) == AppendedTo(b, m, BatchEntry(m, b.files[b.next]))

\* The loop goes on while files are left.
BatchContinue(b) == [b EXCEPT !.active = b.next <= Len(b.files)]

\* return {"results": results}
BatchResponse(b) ==
    [status_code |-> 200, body |-> [results |-> b.results], calls |-> b.calls]

\* load_model under the three things the environment can do: the weights
\* load and move to the device; YOLO(weights) raises; YOLO(weights) returns
\* and is assigned, then model.to(DEVICE) raises.
LoadOutcomes == {"loaded", "weights_error", "device_error"}

load_model(m, outcome) ==
    CASE outcome = "loaded" -> [model |-> Yolo, raised |-> FALSE, writes |-> 1]
      [] outcome = "weights_error" -> [model |-> m, raised |-> TRUE, writes |-> 0]
      [] outcome = "device_error" -> [model |-> Yolo, raised |-> TRUE, writes |-> 1]

(* ------------------------------ inputs ------------------------------- *)

SeqsUpTo(S, n) == UNION {[1..k -> S] : k \in 0..n}

ImgWidth == 2
ImgHeight == 1

ClassIds == {0, 2, 5, 99}
Confidences == {40, 50, 60}
RawBoxes ==
    {[xyxy |-> <<0, 0, 1, 1>>, conf |-> c, cls |-> k] :
        c \in Confidences, k \in ClassIds}

Scenes == SeqsUpTo(RawBoxes, MaxBoxes)
SmallScenes == SeqsUpTo(RawBoxes, 1)

Allowlists == {<<>>, <<"person">>, <<"car", "truck">>, <<"bus">>}

ThresholdClasses == {"person", "car"}
ThresholdVals == {30, 50, 70}
ThresholdMaps == UNION {[D -> ThresholdVals] : D \in SUBSET ThresholdClasses}

Picture(scene) == ImageBytes(ImgWidth, ImgHeight, scene, FALSE)
HeavyPicture == ImageBytes(ImgWidth, ImgHeight, <<>>, TRUE)

\* "data:image/png;base64," followed by the base64 of the content.
DataUrl(content) == Str(<<HeaderSeg>> \o b64encode(content).segs)

Url == Str(<<TextSeg("http://cam/frame.jpg")>>)
ImageUrls == {None, EmptyStr, Url}

\* Strings with commas in them that do not start with the data-URL prefix.
CommaImageDatas ==
    {Str(<<B64Seg(Picture(<<>>)), NotB64Seg>>),
     Str(<<NotB64Seg, B64Seg(Picture(<<>>))>>),
     Str(<<NotB64Seg, HeaderSeg, B64Seg(Picture(<<>>))>>),
     Str(<<NotB64Seg, NotB64Seg, NotB64Seg, NotB64Seg,
           B64Seg(Picture(<<>>))>>),
     Str(<<EmptySeg, EmptySeg>>),
     Str(<<B64Seg(JunkBytes), B64Seg(Picture(<<>>))>>)}

BadImageDatas ==
    {None, EmptyStr, b64encode(JunkBytes), Str(<<NotB64Seg>>),
     Str(<<HeaderSeg>>), DataUrl(EmptyBytes), DataUrl(JunkBytes),
     Str(<<HeaderSeg, NotB64Seg>>)}
    \cup CommaImageDatas

EdgeImageDatas ==
    BadImageDatas
    \cup {b64encode(Picture(s)) : s \in SmallScenes}
    \cup {DataUrl(Picture(s)) : s \in SmallScenes}
    \cup {Str(<<EmptySeg, B64Seg(Picture(s))>>) : s \in SmallScenes}
    \cup {Str(<<B64Seg(Picture(s)), B64Seg(JunkBytes)>>) : s \in SmallScenes}
    \cup {Str(<<HeaderSeg, B64Seg(Picture(s)), NotB64Seg>>) : s \in SmallScenes}
    \cup {b64encode(HeavyPicture)}

\* Requests that run the whole pipeline on every scene.
PipelineRequests ==
    {DetectionRequest(b64encode(Picture(s)), None, c, t) :
        s \in Scenes, c \in Allowlists, t \in ThresholdMaps}

\* Requests over every shape of the image fields.
EdgeRequests ==
    {DetectionRequest(d, u, c, t) :
        d \in EdgeImageDatas, u \in ImageUrls, c \in Allowlists,
        t \in ThresholdMaps}

DetectRequests == PipelineRequests \cup EdgeRequests

\* The requests of the service specification.
SvcScene ==
    <<[xyxy |-> <<0, 0, 1, 1>>, conf |-> 60, cls |-> 0],
      [xyxy |-> <<0, 0, 1, 1>>, conf |-> 60, cls |-> 2]>>

SvcRequests ==
    {DetectionRequest(d, u, c, t) :
        d \in {None, EmptyStr, b64encode(JunkBytes),
               b64encode(Picture(SvcScene)),
               Str(<<EmptySeg, B64Seg(Picture(SvcScene))>>)},
        u \in {None, Url},
        c \in {<<>>},
        t \in {<<>>, [k \in {"car"} |-> 70]}}

ALPRRequests == {[region |-> "us"], [region |-> "eu"]}

FilterCalls ==
    {[results |-> rs, classes |-> c, thresholds |-> t,
      img_width |-> ImgWidth, img_height |-> ImgHeight] :
        rs \in {<<Result(s)>> : s \in Scenes}
               \cup {<<NoBoxesResult, Result(s)>> : s \in SmallScenes}
               \cup {<<>>},
        c \in Allowlists, t \in ThresholdMaps}

UploadFile(filename, readable, content) ==
    [filename |-> filename, readable |-> readable, content |-> content]

UploadPool ==
    {UploadFile("a.jpg", TRUE, Picture(SvcScene)),
     UploadFile("b.jpg", TRUE, JunkBytes),
     UploadFile("c.jpg", TRUE, EmptyBytes),
     UploadFile("d.jpg", FALSE, EmptyBytes)}

Uploads == SeqsUpTo(UploadPool, MaxFiles)

\* The uploads of the service specification.
SvcUploads ==
    SeqsUpTo({UploadFile("a.jpg", TRUE, Picture(SvcScene)),
              UploadFile("b.jpg", TRUE, JunkBytes)}, MaxFiles)

(* ------------------------------ actions ------------------------------ *)

NoReq == [endpoint |-> "none"]
NoResp == [endpoint |-> "none", status_code |-> 0]

Request(endpoint, body) == [endpoint |-> endpoint, body |-> body]

Init ==
    /\ phase = "created"
    /\ model = None
    /\ loads = 0
    /\ served = 0
    /\ req = NoReq
    /\ resp = NoResp
    /\ calls = <<>>
    /\ batch = NoBatch
    /\ net \in NetKinds

StartupWith(r) ==
    /\ model' = r.model
    /\ loads' = loads + r.writes
    /\ phase' = IF r.raised THEN "aborted" ELSE "serving"

\* The startup event: one call of load_model; an exception aborts startup.
Startup ==
    /\ phase = "created"
    /\ \E outcome \in LoadOutcomes : StartupWith(load_model(model, outcome))
    /\ UNCHANGED <<served, req, resp, calls, batch, net>>

\* The requests accepted and not yet answered.
InFlight == IF batch.active THEN 1 ELSE 0

\* The response r to the request (endpoint, body) goes out.
Respond(endpoint, body, r) ==
    /\ req' = Request(endpoint, body)
    /\ resp' = [endpoint |-> endpoint, status_code |-> r.status_code,
                body |-> r.body]
    /\ calls' = r.calls
    /\ served' = served + 1

\* Variant of Handle that drops the model handle when a request fails.
HandleDropsOnError(endpoint, body, r) ==
    /\ phase \in {"created", "serving"}
    /\ served + InFlight < MaxServed
    /\ Respond(endpoint, body, r)
    /\ model' = IF r.status_code >= 500 THEN None ELSE model
    /\ UNCHANGED <<phase, loads, batch, net>>

\* A handler other than batch_validate runs to completion: it awaits
\* nothing between reading the handle and returning.  Before startup has
\* run (lifespan off, or a handler called directly) requests are handled
\* with the handle still None.
Handle(endpoint, body, r) ==
    /\ phase \in {"created", "serving"}
    /\ served + InFlight < MaxServed
    /\ Respond(endpoint, body, r)
    /\ UNCHANGED <<phase, model, loads, batch, net>>

Health == Handle("health", None, health_check(model))

Detect(request) == Handle("detect", request, detect_objects(model, request))

Alpr(request) == Handle("alpr", request, alpr_detection(request))

\* POST /batch-validate arrives: the handler runs up to the first
\* `await file.read()`, or returns at once when no file was uploaded.  One
\* batch is in flight at a time.
BatchStart(files) ==
    /\ phase \in {"created", "serving"}
    /\ ~batch.active
    /\ served < MaxServed
    /\ batch' = BatchContinue(BatchFrame(TRUE, files))
    /\ IF files = <<>>
       THEN Respond("batch-validate", files, BatchResponse(NoBatch))
       ELSE UNCHANGED <<req, resp, calls, served>>
    /\ UNCHANGED <<phase, model, loads, net>>

\* The pending file.read() completes: the handler runs the rest of the
\* iteration on the handle as it is now, then awaits the next read() or,
\* after the last file, returns.  Anything else may run between two steps.
BatchStep ==
    /\ phase \in {"created", "serving"}
    /\ batch.active
    /\ batch' = BatchContinue(BatchIterate(batch, model))
    /\ IF batch'.active
       THEN UNCHANGED <<req, resp, calls, served>>
       ELSE Respond("batch-validate", batch.files, BatchResponse(batch'))
    /\ UNCHANGED <<phase, model, loads, net>>

\* A direct call of filter_detections.
FilterCall(a) ==
    Handle("filter_detections", a,
           [status_code |-> 0,
            body |-> [detections |->
                          filter_detections(a.results, a.classes, a.thresholds,
                                            a.img_width, a.img_height)],
            calls |-> <<Call("filter_detections", TRUE)>>])

Next ==
    \/ Startup
    \/ Health
    \/ \E r \in SvcRequests : Detect(r)
    \/ \E r \in ALPRRequests : Alpr(r)
    \/ \E fs \in SvcUploads : BatchStart(fs)
    \/ BatchStep

Spec == Init /\ [][Next]_vars

\* One /detect request, or one direct call of filter_detections, on inputs
\* drawn from the bounded sets.
Loaded == phase = "serving" /\ model = Yolo /\ loads = 1
NotLoaded == phase = "created" /\ model = None /\ loads = 0

PipelineInit ==
    /\ served = 0
    /\ resp = NoResp
    /\ calls = <<>>
    /\ batch = NoBatch
    /\ net \in NetKinds
    /\ \/ Loaded /\ req \in {Request("detect", r) : r \in DetectRequests}
       \/ NotLoaded /\ req \in {Request("detect", r) : r \in EdgeRequests}
       \/ Loaded /\ req \in {Request("filter_detections", a) : a \in FilterCalls}

DetectPending == served = 0 /\ req.endpoint = "detect" /\ Detect(req.body)

FilterPending ==
    served = 0 /\ req.endpoint = "filter_detections" /\ FilterCall(req.body)

PipelineNext == DetectPending \/ FilterPending

PipelineSpec == PipelineInit /\ [][PipelineNext]_vars

\* One /batch-validate request on uploads drawn from the bounded set, with
\* the startup event free to run before it, between two of its files, or
\* after it.
BatchInit ==
    /\ served = 0
    /\ req = NoReq
    /\ resp = NoResp
    /\ calls = <<>>
    /\ batch = NoBatch
    /\ net \in NetKinds
    /\ Loaded \/ NotLoaded

BatchArrives == served = 0 /\ \E fs \in Uploads : BatchStart(fs)

BatchNext == BatchArrives \/ BatchStep \/ Startup

BatchSpec == BatchInit /\ [][BatchNext]_vars

(* ------------------------------ claims ------------------------------- *)

DetectDone == req.endpoint = "detect" /\ resp.endpoint = "detect"
FilterDone ==
    req.endpoint = "filter_detections" /\ resp.endpoint = "filter_detections"
BatchDone ==
    /\ req.endpoint = "batch-validate"
    /\ resp.endpoint = "batch-validate"
    /\ ~batch.active

HasImage(r) == Truthy(r.image_data)
Decodable(r) == HasImage(r) /\ ~decode_image(r.image_data).raised
SceneOf(r) == decode_image(r.image_data).value.scene

\* Neither field given, only image_url given, or image_data that fails to
\* decode.
Malformed(r) == ~Decodable(r)

Mapped(b) == b.cls \in DOMAIN YOLO_TO_VY_CLASSES
NameOf(b) == YOLO_TO_VY_CLASSES[b.cls]
Allowed(b, classes) == classes = <<>> \/ NameOf(b) \in Range(classes)
OwnThreshold(b, thresholds) ==
    IF NameOf(b) \in DOMAIN thresholds
    THEN thresholds[NameOf(b)]
    ELSE CONFIDENCE_THRESHOLD

\* What a raw box looks like in a response.
Emitted(b) ==
    [class_name |-> NameOf(b), confidence |-> b.conf,
     bbox |-> [x |-> <<b.xyxy[1], ImgWidth>>, y |-> <<b.xyxy[2], ImgHeight>>,
               width |-> <<b.xyxy[3] - b.xyxy[1], ImgWidth>>,
               height |-> <<b.xyxy[4] - b.xyxy[2], ImgHeight>>]]

EmittedAll(boxes) == [i \in 1..Len(boxes) |-> Emitted(boxes[i])]

RECURSIVE Flatten(_)
Flatten(results) ==
    IF results = <<>> THEN <<>>
    ELSE (IF Head(results).has_boxes THEN Head(results).boxes ELSE <<>>)
         \o Flatten(Tail(results))

\* What the network reported for the last /detect request.
NetworkOutput ==
    InvokeModel(model, decode_image(req.body.image_data).value,
                ConfFloor(req.body)).value

\* The raw detections filter_detections was given in the last operation.
RawOf ==
    IF req.endpoint = "filter_detections" THEN Flatten(req.body.results)
    ELSE Flatten(NetworkOutput)

Car50 == [xyxy |-> <<0, 0, 1, 1>>, conf |-> 50, cls |-> 2]
Car60 == [xyxy |-> <<0, 0, 1, 1>>, conf |-> 60, cls |-> 2]
Person60 == [xyxy |-> <<0, 0, 1, 1>>, conf |-> 60, cls |-> 0]
Bus60 == [xyxy |-> <<0, 0, 1, 1>>, conf |-> 60, cls |-> 5]
Unmapped60 == [xyxy |-> <<0, 0, 1, 1>>, conf |-> 60, cls |-> 99]

\* C1: with a model loaded, a /detect request whose input is malformed
\* (neither image field, only image_url, or undecodable image_data) gets
\* status 400, never 500.
C1_MalformedIs400 ==
    (DetectDone /\ model # None /\ Malformed(req.body))
        => resp.status_code = 400

\* C2: with a model loaded and a decodable image, a successful /detect
\* returns exactly the scene's boxes that are mapped, pass the allowlist and
\* have confidence >= their own effective threshold (override, else default).
C2_ExactlyOwnThreshold ==
    (DetectDone /\ resp.status_code = 200)
        => resp.body.detections =
               EmittedAll(SelectSeq(SceneOf(req.body),
                   LAMBDA b : /\ Mapped(b)
                              /\ Allowed(b, req.body.classes)
                              /\ b.conf >= OwnThreshold(b, req.body.thresholds)))

\* C3 as stated: a /detect request with a non-empty image_url never
\* succeeds, whatever its other fields.
C3_UrlNeverSucceeds ==
    (DetectDone /\ Truthy(req.body.image_url)) => resp.status_code # 200

\* C3 as amended: a /detect request with a non-empty image_url fails unless
\* it also carries an image_data that decodes; then the URL is ignored and
\* the response is the one the same request without the URL gets.
C3_UrlWithoutImageFails ==
    (DetectDone /\ Truthy(req.body.image_url))
        => /\ ~Decodable(req.body) => resp.status_code \in {500, 503}
           /\ (Decodable(req.body) /\ model # None)
                  => resp.body =
                         detect_objects(model,
                             [req.body EXCEPT !.image_url = None]).body

C3_Witness ==
    /\ DetectDone
    /\ model # None
    /\ req.body.image_url = Url
    /\ req.body.image_data = None
    /\ resp.status_code = 500

\* C4: the network is invoked only right after a successful decode_image,
\* and never for a request that is rejected: no model loaded, no image_data,
\* or an image_data that does not decode.
C4_InferenceOnlyAfterDecode ==
    /\ \A i \in 1..Len(calls) :
          calls[i].fn = "model"
              => i > 1 /\ calls[i - 1] = Call("decode_image", TRUE)
    /\ (DetectDone /\ (model = None \/ ~Decodable(req.body)))
          => \A i \in 1..Len(calls) : calls[i].fn # "model"

C4_Witness ==
    /\ DetectDone
    /\ model # None
    /\ ~Truthy(req.body.image_data)
    /\ ~Truthy(req.body.image_url)
    /\ resp.status_code # 200
    /\ calls = <<>>

\* C5: while no model is loaded every /detect request gets 503, whatever
\* its body, and nothing is decoded or inferred.
C5_NotLoadedIs503 ==
    (DetectDone /\ model = None) => (resp.status_code = 503 /\ calls = <<>>)

C5_Witness ==
    /\ DetectDone
    /\ model = None
    /\ Decodable(req.body)
    /\ resp.status_code = 503

\* Whether a file, uploaded on its own while the handle is m, is read and
\* detected without error.
FileSucceeds(m, file) ==
    /\ file.readable
    /\ detect_objects(m, DetectionRequest(b64encode(file.content), None,
                                          <<>>, <<>>)).status_code = 200

\* The calls made when the files are processed one after the other, the
\* i-th with the handle seen[i].
RECURSIVE CallsInOrder(_, _)
CallsInOrder(seen, files) ==
    IF files = <<>> THEN <<>>
    ELSE (IF Head(files).readable
          THEN detect_objects(Head(seen),
                              DetectionRequest(b64encode(Head(files).content),
                                               None, <<>>, <<>>)).calls
          ELSE <<>>)
         \o CallsInOrder(Tail(seen), Tail(files))

\* C6: /batch-validate over n files returns n entries, the i-th carrying
\* the i-th filename, with success = FALSE exactly when that file's own read
\* or detect call fails, and equal to the entry the file gets when uploaded
\* alone at that moment; the files are processed one at a time in upload
\* order, and at every moment of the loop the list holds one entry for each
\* file processed so far.
C6_BatchIsolation ==
    /\ batch.next <= Len(batch.files) + 1
    /\ Len(batch.results) = batch.next - 1
    /\ Len(batch.seen) = batch.next - 1
    /\ \A i \in 1..Len(batch.results) :
          /\ batch.results[i].filename = batch.files[i].filename
          /\ batch.results[i].success
                 = FileSucceeds(batch.seen[i], batch.files[i])
          /\ batch.results[i]
                 = BatchContinue(BatchIterate(
                       BatchFrame(TRUE, <<batch.files[i]>>),
                       batch.seen[i])).results[1]
    /\ batch.calls = CallsInOrder(batch.seen,
                                  SubSeq(batch.files, 1, batch.next - 1))
    /\ BatchDone
          => /\ resp.status_code = 200
             /\ req.body = batch.files
             /\ resp.body.results = batch.results
             /\ Len(resp.body.results) = Len(req.body)
             /\ calls = batch.calls

C6_Witness ==
    /\ BatchDone
    /\ Len(req.body) = 3
    /\ req.body[2].content = JunkBytes
    /\ batch.seen = <<Yolo, Yolo, Yolo>>
    /\ resp.body.results[1].success
    /\ ~resp.body.results[2].success
    /\ resp.body.results[3].success

\* C7 as stated: among the scene's boxes that are mapped, pass the
\* allowlist and whose class has a caller-supplied override, a successful
\* /detect returns exactly those with confidence >= that override, whatever
\* the other overrides.
C7_OverrideDecides ==
    (DetectDone /\ resp.status_code = 200)
        => SelectSeq(resp.body.detections,
                     LAMBDA d : d.class_name \in DOMAIN req.body.thresholds)
               = EmittedAll(SelectSeq(SceneOf(req.body),
                     LAMBDA b : /\ Mapped(b)
                                /\ Allowed(b, req.body.classes)
                                /\ NameOf(b) \in DOMAIN req.body.thresholds
                                /\ b.conf >= req.body.thresholds[NameOf(b)]))

\* C7 as amended: the floor passed to the network is never above an
\* override; among the boxes the network reports that are mapped, pass the
\* allowlist and whose class has an override, a successful /detect returns
\* exactly those with confidence >= that override, whatever the other
\* overrides; so of the scene's such boxes every one with confidence above
\* its override is returned and none with confidence below it, while one
\* whose confidence equals the override is returned exactly when the network
\* reports it.
C7_OverrideDecidesReported ==
    (DetectDone /\ resp.status_code = 200)
        => /\ \A k \in DOMAIN req.body.thresholds :
                 ConfFloor(req.body) <= req.body.thresholds[k]
           /\ SelectSeq(resp.body.detections,
                        LAMBDA d : d.class_name \in DOMAIN req.body.thresholds)
                  = EmittedAll(SelectSeq(RawOf,
                        LAMBDA b : /\ Mapped(b)
                                   /\ Allowed(b, req.body.classes)
                                   /\ NameOf(b) \in DOMAIN req.body.thresholds
                                   /\ b.conf >= req.body.thresholds[NameOf(b)]))
           /\ SelectSeq(resp.body.detections,
                        LAMBDA d : /\ d.class_name \in DOMAIN req.body.thresholds
                                   /\ d.confidence
                                          > req.body.thresholds[d.class_name])
                  = EmittedAll(SelectSeq(SceneOf(req.body),
                        LAMBDA b : /\ Mapped(b)
                                   /\ Allowed(b, req.body.classes)
                                   /\ NameOf(b) \in DOMAIN req.body.thresholds
                                   /\ b.conf > req.body.thresholds[NameOf(b)]))
           /\ \A i \in 1..Len(resp.body.detections) :
                 resp.body.detections[i].class_name
                         \in DOMAIN req.body.thresholds
                     => resp.body.detections[i].confidence
                            >= req.body.thresholds[
                                   resp.body.detections[i].class_name]
           /\ \A i \in 1..Len(SceneOf(req.body)) :
                 (/\ Mapped(SceneOf(req.body)[i])
                  /\ Allowed(SceneOf(req.body)[i], req.body.classes)
                  /\ NameOf(SceneOf(req.body)[i]) \in DOMAIN req.body.thresholds
                  /\ SceneOf(req.body)[i].conf
                         = req.body.thresholds[NameOf(SceneOf(req.body)[i])])
                     => (Emitted(SceneOf(req.body)[i])
                             \in Range(resp.body.detections)
                         <=> SceneOf(req.body)[i] \in Range(RawOf))

\* A network that does not report a score equal to the floor: the car at
\* 0.6 is returned under {"car": 0.5}, the car at exactly 0.5 is not.
C7_Witness ==
    /\ DetectDone
    /\ resp.status_code = 200
    /\ ~net.keeps_equal
    /\ req.body.thresholds = [k \in {"car"} |-> 50]
    /\ SceneOf(req.body) = <<Car60, Car50>>
    /\ req.body.classes = <<>>
    /\ resp.body.detections = <<Emitted(Car60)>>

\* C8: with a non-empty allowlist every emitted detection has a class name
\* in it; with an empty allowlist filter_detections emits every raw
\* detection that is mapped and meets its threshold.
C8_Allowlist ==
    (FilterDone \/ (DetectDone /\ resp.status_code = 200))
        => /\ req.body.classes # <<>>
                 => \A i \in 1..Len(resp.body.detections) :
                        resp.body.detections[i].class_name
                            \in Range(req.body.classes)
           /\ req.body.classes = <<>>
                 => resp.body.detections =
                        EmittedAll(SelectSeq(RawOf,
                            LAMBDA b : /\ Mapped(b)
                                       /\ b.conf >= OwnThreshold(b,
                                                        req.body.thresholds)))

C8_Witness ==
    /\ FilterDone
    /\ req.body.classes = <<"person">>
    /\ req.body.results = <<Result(<<Car60, Person60>>)>>
    /\ req.body.thresholds = <<>>
    /\ resp.body.detections = <<Emitted(Person60)>>

\* C9: the emitted detections are, in order, raw detections whose native id
\* is a key of YOLO_TO_VY_CLASSES, each under the name the table gives its
\* id (5 is "truck"); a raw detection with an id outside the table is never
\* emitted.
C9_ClassMap ==
    (FilterDone \/ (DetectDone /\ resp.status_code = 200))
        => \E keep \in SUBSET {i \in 1..Len(RawOf) : Mapped(RawOf[i])} :
               resp.body.detections =
                   EmittedAll(SelectSeq(
                       [i \in 1..Len(RawOf) |-> [at |-> i, cls |-> RawOf[i].cls,
                                                 conf |-> RawOf[i].conf,
                                                 xyxy |-> RawOf[i].xyxy]],
                       LAMBDA e : e.at \in keep))

C9_Witness ==
    /\ FilterDone
    /\ req.body.results = <<Result(<<Unmapped60, Bus60>>)>>
    /\ req.body.classes = <<>>
    /\ req.body.thresholds = <<>>
    /\ resp.body.detections = <<Emitted(Bus60)>>
    /\ resp.body.detections[1].class_name = "truck"

\* C10: the model handle is assigned at most once, by the startup load;
\* once set no request changes it, and from then on every /health response
\* reports model_loaded with status "healthy" and no /detect gets a 503.
C10_LoadedStaysLoaded ==
    [][/\ model # None => model' = model
       /\ loads' <= 1
       /\ model' # model => (phase = "created" /\ served' = served)
       /\ (model # None /\ served' # served)
              => /\ resp'.endpoint = "health"
                     => /\ resp'.body.model_loaded
                        /\ resp'.body.status = "healthy"
                 /\ resp'.endpoint = "detect" => resp'.status_code # 503]_vars

C10_Witness ==
    /\ model = Yolo
    /\ loads = 1
    /\ served >= 2
    /\ resp.endpoint = "health"
    /\ resp.body.model_loaded
    /\ resp.body.status = "healthy"

====
